---- MODULE Spec2Model ----
(***************************************************************************)
(* Model of asyncio_redis: RedisProtocol (one pipelined connection, its    *)
(* reply queue, transaction and pub/sub state), the Transaction proxy and  *)
(* the Connection pool, together with the asyncio event loop that runs     *)
(* their callbacks and a Redis server answering each connection in order.  *)
(*                                                                         *)
(* Granularity.  One step of the model is one callback of the event loop   *)
(* (data_received, connection_lost, the resumption of a suspended          *)
(* coroutine) or one synchronous piece of caller code (issuing a command   *)
(* up to its first suspension).  The loop runs callbacks in FIFO order     *)
(* (variable ready).  The decoder is modelled at the level of reply lines: *)
(* a frame is one line handed to _line_received (a bulk with its body      *)
(* counts as one frame).                                                   *)
(***************************************************************************)
EXTENDS Integers, Sequences, FiniteSets, TLC

\* ---------------------------------------------------------------- bounds
PoolSize == 2        \* Connection.create(poolsize=...)
MaxCalls == 3        \* commands called in one behaviour
MaxChunk == 3        \* most lines handed to one data_received call

Engines == 1..PoolSize

VARIABLES
    pool,            \* Connection._transport_protocol_pairs (list of engines)
    queue,           \* RedisProtocol._queue, per engine: deque of reply slots
    buffer,          \* RedisProtocol._buffer, per engine: complete lines not yet dispatched
    in_pubsub,       \* RedisProtocol._in_pubsub
    in_transaction,  \* RedisProtocol._in_transaction
    transaction,     \* RedisProtocol._transaction (0 is None, else the handle)
    trq,             \* RedisProtocol._transaction_response_queue
    pipelined_calls, \* RedisProtocol._pipelined_calls
    messages_queue,  \* RedisProtocol._messages_queue
    calls,           \* every _query issued: its PipelinedCall, slot Future and coroutine
    mbs,             \* every MultiBulkReply created, with its handle_results task
    written,         \* what each engine wrote to its transport (ids of calls)
    srv,             \* the server's state for each connection
    wire,            \* reply lines sent by the server, not yet read
    closed,          \* 0 while the transport of the engine is open; once it is
                     \* closed, 1 + the number of calls made before
    ready,           \* the event loop's FIFO of callbacks
    last,            \* outcome of the latest Connection.__getattr__
    dec,             \* the decoder of one protocol, byte by byte
    create           \* Connection.create: the password and db given to the
                     \* protocols, and the protocol being connected (0: none)

vars == <<pool, queue, buffer, in_pubsub, in_transaction, transaction, trq,
          pipelined_calls, messages_queue, calls, mbs, written, srv, wire,
          closed, ready, last, dec, create>>

\* ---------------------------------------------------------------- values
\* A decoded reply line / a Python value.  id is the call the server was
\* answering when it produced the line (0 for a published message; for a
\* child of an EXEC reply, the queued command it is the result of); top
\* tells the first line of a reply from the children of a multi bulk.
Val(t, s, n, id) == [t |-> t, s |-> s, n |-> n, id |-> id, top |-> TRUE]
Kid(v)           == [v EXCEPT !.top = FALSE]
NoVal == Val("none", "", 0, 0)

StatusReply(s, id) == Val("status", s, 0, id)
Exc(s, id)         == Val("error", s, 0, id)
IsException(v)     == v.t = "error"
\* StatusReply.__eq__ compares the status attribute
IsStatus(v, s)     == v.t = "status" /\ v.s = s

\* transaction_response_queue: None or a deque
None     == [none |-> TRUE, q |-> <<>>]
Deque(q) == [none |-> FALSE, q |-> q]

\* a slot of RedisProtocol._queue: the Future of a call, or the i-th child
\* Future of a multi bulk reply
CmdSlot(c)      == [k |-> "cmd", c |-> c, i |-> 0]
ChildSlot(m, i) == [k |-> "child", c |-> m, i |-> i]

\* a callback in the loop's ready queue
Handle(h, x) == [h |-> h, x |-> x]

SeqMap(Op(_), s) == [i \in 1..Len(s) |-> Op(s[i])]

\* ---------------------------------------------------------------- commands
\* The commands of the model and what their methods pass to _query.
SimpleCmds == {"set", "exists", "getset", "blpop", "brpoplpush"}

\* post_process_func given to _query
PostProcessorOf(cmd) ==
    CASE cmd = "exists" -> "int_to_bool"
      [] cmd = "blpop"  -> "multibulk_as_list"
      [] OTHER          -> "none"

\* set_blocking given to _query
IsBlockingCmd(cmd) == cmd \in {"blpop", "brpoplpush"}

\* the return annotation of the command method ({} when it has none)
ReturnTypes(cmd) ==
    CASE cmd = "set"        -> {"status"}
      [] cmd = "exists"     -> {"bool"}
      [] cmd = "blpop"      -> {"list"}
      [] cmd = "brpoplpush" -> {"bulk"}
      [] cmd = "subscribe"  -> {"list"}
      [] OTHER              -> {}

\* ---------------------------------------------------------------- state record
\* The program state as one record, so that the methods below are functions
\* from state to state.  raised is set when the running callback raised.
St == [queue |-> queue, buffer |-> buffer, in_pubsub |-> in_pubsub,
       in_transaction |-> in_transaction, transaction |-> transaction,
       trq |-> trq, pipelined_calls |-> pipelined_calls,
       messages_queue |-> messages_queue, calls |-> calls, mbs |-> mbs,
       written |-> written, ready |-> ready, raised |-> FALSE]

Install(S) ==
    /\ queue' = S.queue
    /\ buffer' = S.buffer
    /\ in_pubsub' = S.in_pubsub
    /\ in_transaction' = S.in_transaction
    /\ transaction' = S.transaction
    /\ trq' = S.trq
    /\ pipelined_calls' = S.pipelined_calls
    /\ messages_queue' = S.messages_queue
    /\ calls' = S.calls
    /\ mbs' = S.mbs
    /\ written' = S.written
    /\ ready' = S.ready

\* call_soon
CallSoon(S, h) == [S EXCEPT !.ready = Append(@, h)]

\* A record of calls: one invocation of a command method, with the
\* PipelinedCall and the slot Future its _query made (f = "none" when the
\* method raised before _query).
\*   pc  "wait"    suspended in _get_answer on the slot Future
\*       "gather"  suspended on MultiBulkReply.get_as_list()
\*       "iter"    _exec suspended on an item of the EXEC reply
\*       "execgather"  _exec suspended on get_as_list() of an item that is a
\*                 multi bulk ("execlist": resumed with the list)
\*       "done" / "failed"  the coroutine returned res / raised res
\*   uf  the detached Future made for a command queued in a transaction
\*   nset  how many times the slot Future was given a result or an exception
\*   fap   futures_and_postprocessors of _exec (fap0: as it was at the start)
NewCall(e, cmd, bypass, pp, blocking, via, frompool) ==
    [e |-> e, cmd |-> cmd, bypass |-> bypass, pp |-> pp, blocking |-> blocking,
     via |-> via, frompool |-> frompool, pc |-> "wait", f |-> "pending",
     nset |-> 0, raw |-> NoVal, res |-> NoVal, uf |-> "none", ufval |-> NoVal,
     mb |-> 0, k |-> 0, fap |-> None, fap0 |-> None]

\* the coroutine of call c ends
Done(S, c, v) == [S EXCEPT !.calls[c].pc = "done", !.calls[c].res = v]
Fail(S, c, x) == [S EXCEPT !.calls[c].pc = "failed", !.calls[c].res = x]

\* ---------------------------------------------------------------- _query
\* _query whose _get_answer appends its Future to _queue twice
QueryTwoSlots(S, e, cmd, bypass, pp, blocking, via, frompool) ==
    LET c == Len(S.calls) + 1 IN
    [S EXCEPT !.pipelined_calls[e] = @ \cup {c},
              !.written[e] = Append(@, c),
              !.queue[e] = @ \o <<CmdSlot(c), CmdSlot(c)>>,
              !.calls = Append(@, NewCall(e, cmd, bypass, pp, blocking, via, frompool))]

\* _query: PipelinedCall added, _send_command, then _get_answer up to its
\* suspension on the new slot Future appended to _queue.
Query(S, e, cmd, bypass, pp, blocking, via, frompool) ==
    LET c == Len(S.calls) + 1 IN
    [S EXCEPT !.pipelined_calls[e] = @ \cup {c},
              !.written[e] = Append(@, c),
              !.queue[e] = Append(@, CmdSlot(c)),
              !.calls = Append(@, NewCall(e, cmd, bypass, pp, blocking, via, frompool))]

\* a command method that raised before reaching _query
Raised(S, e, cmd, via, frompool, x) ==
    [S EXCEPT !.calls = Append(@,
        [NewCall(e, cmd, FALSE, PostProcessorOf(cmd), IsBlockingCmd(cmd), via, frompool)
            EXCEPT !.pc = "failed", !.f = "none", !.res = Exc(x, 0)])]

\* ---------------------------------------------------------------- replies
\* Future.set_result / set_exception on a slot: the waiting coroutine is
\* scheduled with call_soon.  On a cancelled Future they raise
\* InvalidStateError.
SetSlot(S, slot, answer) ==
    IF slot.k = "cmd" /\ S.calls[slot.c].f = "cancelled"
    THEN [S EXCEPT !.raised = TRUE]
    ELSE IF slot.k = "cmd"
    THEN CallSoon([S EXCEPT !.calls[slot.c].f = IF IsException(answer) THEN "exception" ELSE "result",
                            !.calls[slot.c].raw = answer,
                            !.calls[slot.c].nset = @ + 1],
                  Handle("call", slot.c))
    ELSE LET S1 == [S EXCEPT !.mbs[slot.c].futs[slot.i] = answer] IN
         IF S.mbs[slot.c].hr = "wait"
         THEN CallSoon([S1 EXCEPT !.mbs[slot.c].hr = "sched"], Handle("hr", slot.c))
         ELSE S1

\* _push_answer taking the slot from the wrong end of the deque (pop())
PushAnswerFromTail(S, e, answer) ==
    IF S.queue[e] = <<>>
    THEN [S EXCEPT !.raised = TRUE]
    ELSE SetSlot([S EXCEPT !.queue[e] = SubSeq(@, 1, Len(@) - 1)],
                 S.queue[e][Len(S.queue[e])], answer)

\* _push_answer
PushAnswer(S, e, answer) ==
    IF S.queue[e] = <<>>
    THEN [S EXCEPT !.raised = TRUE]        \* popleft from an empty deque
    ELSE SetSlot([S EXCEPT !.queue[e] = Tail(@)], Head(S.queue[e]), answer)

\* a MultiBulkReply with the handle_results task that fills its queue
\*   futs   the child Futures (NoVal while pending)
\*   items  what handle_results has put on reply.queue
\*   hr     handle_results: "sched" (scheduled), "wait" (suspended on the
\*          next child), "done", "dead" (ended by an exception)
\*   rd     who reads the queue: "none", "call" (coroutine of call rc),
\*          "pubsub" (_handle_pubsub_multibulk_reply); rwait: it is suspended
\*   ps     state of the _handle_pubsub_multibulk_reply task
\*   out    0, or the how-manieth message get_next_published returned it as
NewMultiBulk(e, count, id) ==
    [e |-> e, count |-> count, id |-> id,
     futs |-> IF count <= 0 THEN <<>> ELSE [i \in 1..count |-> NoVal], items |-> <<>>, hr |-> "sched",
     rd |-> "none", rc |-> 0, rwait |-> FALSE, ps |-> "none", out |-> 0]

\* _handle_multi_bulk_reply that puts the child Futures behind the slots
\* that wait already
HandleMultiBulkReplyAtTail(S, e, fr) ==
    LET m     == Len(S.mbs) + 1
        count == fr.n
        reply == [Val("mbreply", "", m, fr.id) EXCEPT !.top = fr.top]
        S1    == PushAnswer(S, e, reply)
    IN  IF S1.raised THEN S1
        ELSE CallSoon([S1 EXCEPT !.mbs = Append(@, NewMultiBulk(e, count, fr.id)),
                                 !.queue[e] = @ \o (IF count <= 0 THEN <<>>
                                                    ELSE [i \in 1..count |-> ChildSlot(m, i)])],
                      Handle("hr", m))

\* _handle_multi_bulk_reply
HandleMultiBulkReply(S, e, fr) ==
    LET m     == Len(S.mbs) + 1
        count == fr.n
        reply == [Val("mbreply", "", m, fr.id) EXCEPT !.top = fr.top]
        S1    == IF S.in_pubsub[e]
                 THEN CallSoon(S, Handle("pubsub", m))
                 ELSE PushAnswer(S, e, reply)
        mb    == [NewMultiBulk(e, count, fr.id) EXCEPT
                     !.ps = IF S.in_pubsub[e] THEN "new" ELSE "none"]
    IN  IF S1.raised THEN S1
        ELSE CallSoon([S1 EXCEPT !.mbs = Append(@, mb),
                                 !.queue[e] = (IF count <= 0 THEN <<>>
                                               ELSE [i \in 1..count |-> ChildSlot(m, i)]) \o @],
                      Handle("hr", m))

\* _line_received, with the _handle_*_reply method it dispatches to
LineReceived(S, e, fr) ==
    CASE fr.t \in {"status", "int", "bulk", "nil", "error"} -> PushAnswer(S, e, fr)
      [] fr.t = "mb" -> HandleMultiBulkReply(S, e, fr)
      [] OTHER       -> S                   \* print('err...')

\* the loop of data_received over the complete lines of _buffer; a handler
\* that raises leaves the rest of the buffer for the next call
RECURSIVE DataLoop(_, _)
DataLoop(S, e) ==
    IF S.buffer[e] = <<>> \/ S.raised THEN S
    ELSE DataLoop(LineReceived([S EXCEPT !.buffer[e] = Tail(@)], e, Head(S.buffer[e])), e)

\* connection_lost
RECURSIVE ConnectionLostLoop(_, _)
ConnectionLostLoop(S, e) ==
    IF S.queue[e] = <<>> THEN S
    ELSE ConnectionLostLoop(
            SetSlot([S EXCEPT !.queue[e] = Tail(@)], Head(S.queue[e]), Exc("ConnectionLost", 0)), e)

\* ---------------------------------------------------------------- coroutines
TypeOf(v) == v.t

\* typecheck_return of _command
TypecheckReturn(S, c, result) ==
    LET rt == ReturnTypes(S.calls[c].cmd) IN
    IF rt # {} /\ TypeOf(result) \notin rt
    THEN Fail(S, c, Exc("TypeError", c))
    ELSE Done(S, c, result)

\* _exec from "for f in multi_bulk_reply" on: items of the EXEC reply are
\* taken from its queue while there are any, each one resolving the next
\* entry of futures_and_postprocessors; then the transaction state is reset.
RECURSIVE ExecLoop(_, _)
ExecLoop(S, c) ==
    LET cr == S.calls[c]
        e  == cr.e
        m  == cr.mb
        mb == S.mbs[m]
    IN
    IF cr.k >= mb.count
    THEN Done([S EXCEPT !.trq[e] = Deque(<<>>),
                        !.in_transaction[e] = FALSE,
                        !.transaction[e] = 0], c, Val("nil", "", 0, 0))
    ELSE IF cr.k >= Len(mb.items)
    THEN [S EXCEPT !.calls[c].pc = "iter",
                   !.mbs[m].rd = "call", !.mbs[m].rc = c, !.mbs[m].rwait = TRUE]
    ELSE IF cr.fap.none THEN Fail(S, c, Exc("AttributeError", c))
    ELSE IF cr.fap.q = <<>> THEN Fail(S, c, Exc("IndexError", c))
    ELSE
      LET answer == mb.items[cr.k + 1]
          entry  == Head(cr.fap.q)
          S1     == [S EXCEPT !.calls[c].fap.q = Tail(@), !.calls[c].k = @ + 1]
      IN
      IF IsException(answer)
      THEN ExecLoop([S1 EXCEPT !.calls[entry.f].uf = "exception",
                               !.calls[entry.f].ufval = answer], c)
      ELSE IF entry.pp = "int_to_bool" /\ answer.t # "int"
      THEN Fail(S1, c, Exc("AssertionError", c))
      ELSE IF entry.pp = "multibulk_as_list" /\ answer.t # "mbreply"
      THEN Fail(S1, c, Exc("AssertionError", c))
      ELSE IF /\ entry.pp = "multibulk_as_list"
              /\ S.mbs[answer.n].count > 0
              /\ cr.pc # "execlist"
      THEN \* suspended in post_process_func on get_as_list() of the item
           LET S2 == [S EXCEPT !.calls[c].pc = "execgather",
                               !.mbs[answer.n].rd = "call", !.mbs[answer.n].rc = c] IN
           IF Len(S.mbs[answer.n].items) = S.mbs[answer.n].count
           THEN CallSoon(S2, Handle("call", c))
           ELSE [S2 EXCEPT !.mbs[answer.n].rwait = TRUE]
      ELSE IF entry.call \notin S1.pipelined_calls[e]
      THEN Fail(S1, c, Exc("KeyError", c))
      ELSE
        LET processed == CASE entry.pp = "int_to_bool" ->
                                Val("bool", "", IF answer.n # 0 THEN 1 ELSE 0, answer.id)
                           [] entry.pp = "multibulk_as_list" ->
                                Val("list", "", answer.n, answer.id)
                           [] OTHER -> answer
        IN ExecLoop([S1 EXCEPT !.pipelined_calls[e] = @ \ {entry.call},
                               !.calls[c].pc = "run",
                               !.calls[entry.f].uf = "result",
                               !.calls[entry.f].ufval = processed], c)

\* the command method and a _command wrapper that returns what the method
\* returned, without add_done_callback or typecheck_return
ReturnUnchecked(S, c, result) ==
    LET cr == S.calls[c]
        e  == cr.e
    IN
    CASE cr.cmd = "watch" ->
            IF ~IsStatus(result, "OK") THEN Fail(S, c, Exc("AssertionError", c))
            ELSE Query(Done(S, c, result), e, "multi", FALSE, "none", FALSE, 0, cr.frompool)
      [] cr.cmd = "multi" ->
            IF ~IsStatus(result, "OK") THEN Fail(S, c, Exc("AssertionError", c))
            ELSE Done([S EXCEPT !.in_transaction[e] = TRUE,
                                !.trq[e] = Deque(<<>>),
                                !.transaction[e] = c], c, Val("transaction", "", c, c))
      [] cr.cmd = "exec" ->
            IF result.t = "nil" THEN Fail(S, c, Exc("TransactionFailed", c))
            ELSE IF result.t # "mbreply" THEN Fail(S, c, Exc("TypeError", c))
            ELSE ExecLoop([S EXCEPT !.calls[c].mb = result.n], c)
      [] cr.cmd = "discard" ->
            IF ~IsStatus(result, "OK") THEN Fail(S, c, Exc("AssertionError", c))
            ELSE Done(S, c, Val("nil", "", 0, 0))
      [] cr.cmd = "unwatch" ->
            IF result.t # "status" THEN Fail(S, c, Exc("AttributeError", c))
            ELSE IF ~IsStatus(result, "OK") THEN Fail(S, c, Exc("AssertionError", c))
            ELSE Done(S, c, Val("nil", "", 0, 0))
      [] OTHER -> Done(S, c, result)

\* what the command method and the _command wrapper do with the value that
\* "yield from self._query(...)" returned
Return(S, c, result) ==
    LET cr == S.calls[c]
        e  == cr.e
    IN
    CASE cr.cmd = "watch" ->
            IF ~IsStatus(result, "OK") THEN Fail(S, c, Exc("AssertionError", c))
            ELSE Query(Done(S, c, result), e, "multi", FALSE, "none", FALSE, 0, cr.frompool)
      [] cr.cmd = "multi" ->
            IF ~IsStatus(result, "OK") THEN Fail(S, c, Exc("AssertionError", c))
            ELSE Done([S EXCEPT !.in_transaction[e] = TRUE,
                                !.trq[e] = Deque(<<>>),
                                !.transaction[e] = c], c, Val("transaction", "", c, c))
      [] cr.cmd = "exec" ->
            IF result.t = "nil" THEN Fail(S, c, Exc("TransactionFailed", c))
            ELSE IF result.t # "mbreply" THEN Fail(S, c, Exc("TypeError", c))
            ELSE ExecLoop([S EXCEPT !.calls[c].mb = result.n], c)
      [] cr.cmd = "discard" ->
            IF ~IsStatus(result, "OK") THEN Fail(S, c, Exc("AssertionError", c))
            ELSE Done(S, c, Val("nil", "", 0, 0))
      [] cr.cmd = "unwatch" ->
            IF result.t # "status" THEN Fail(S, c, Exc("AttributeError", c))
            ELSE IF ~IsStatus(result, "OK") THEN Fail(S, c, Exc("AssertionError", c))
            ELSE Done(S, c, Val("nil", "", 0, 0))
      [] OTHER ->
            IF cr.via # 0
            THEN IF result.t # "future" THEN Fail(S, c, Exc("AttributeError", c))
                 ELSE Done(S, c, result)
            ELSE TypecheckReturn(S, c, result)

\* _get_answer without the removal of the call
AfterPostProcessKeepsCall(S, c, result) == Return(S, c, result)

\* _get_answer: "if call: self._pipelined_calls.remove(call); return result"
AfterPostProcess(S, c, result) ==
    LET e == S.calls[c].e IN
    IF c \notin S.pipelined_calls[e] THEN Fail(S, c, Exc("KeyError", c))
    ELSE Return([S EXCEPT !.pipelined_calls[e] = @ \ {c}], c, result)

\* the list that get_as_list() of MultiBulkReply m gave to call c
AfterList(S, c) ==
    LET cr  == S.calls[c]
        e   == cr.e
        mb  == S.mbs[cr.mb]
        lst == Val("list", "", cr.mb, mb.id)
    IN
    IF cr.cmd = "subscribe"
    THEN IF mb.count <= 0 THEN Fail(S, c, Exc("IndexError", c))
         ELSE IF ~(mb.items[1].t = "bulk" /\ mb.items[1].s = "subscribe")
         THEN Fail(S, c, Exc("AssertionError", c))
         ELSE IF ~S.in_pubsub[e]
         THEN TypecheckReturn([S EXCEPT !.in_pubsub[e] = TRUE,
                                        !.messages_queue[e] = Deque(<<>>)], c, lst)
         ELSE TypecheckReturn(S, c, lst)
    ELSE AfterPostProcess(S, c, lst)

\* "yield from multibulk.get_as_list()" in the coroutine of call c: gather()
\* of no item is done at once; else the coroutine is suspended until the
\* count items are on the queue.
GetAsList(S, c, m) ==
    LET mb == S.mbs[m]
        S1 == [S EXCEPT !.calls[c].mb = m]
    IN
    IF mb.count <= 0 THEN AfterList(S1, c)
    ELSE LET S2 == [S1 EXCEPT !.calls[c].pc = "gather",
                              !.mbs[m].rd = "call", !.mbs[m].rc = c] IN
         IF Len(mb.items) = mb.count
         THEN CallSoon(S2, Handle("call", c))
         ELSE [S2 EXCEPT !.mbs[m].rwait = TRUE]

\* _get_answer from "result = yield from f" on
GetAnswer(S, c) ==
    LET cr     == S.calls[c]
        e      == cr.e
        result == cr.raw
    IN
    IF cr.f = "exception" THEN Fail(S, c, result)
    ELSE IF cr.f = "cancelled" THEN Fail(S, c, Exc("CancelledError", c))
    ELSE IF S.in_transaction[e] /\ ~cr.bypass
    THEN IF result.t # "status" THEN Fail(S, c, Exc("AttributeError", c))
         ELSE IF ~IsStatus(result, "QUEUED") THEN Fail(S, c, Exc("ExpectedQueued", c))
         ELSE IF S.trq[e].none THEN Fail(S, c, Exc("AttributeError", c))
         ELSE Return([S EXCEPT !.trq[e].q = Append(@, [f |-> c, pp |-> cr.pp, call |-> c]),
                               !.calls[c].uf = "pending"],
                     c, Val("future", "", c, c))
    ELSE CASE cr.pp = "int_to_bool" ->
                IF result.t # "int" THEN Fail(S, c, Exc("AssertionError", c))
                ELSE AfterPostProcess(S, c,
                        Val("bool", "", IF result.n # 0 THEN 1 ELSE 0, result.id))
           [] cr.pp = "multibulk_as_list" ->
                IF result.t # "mbreply" THEN Fail(S, c, Exc("AssertionError", c))
                ELSE GetAsList(S, c, result.n)
           [] OTHER ->
                IF cr.cmd = "subscribe"
                THEN IF c \notin S.pipelined_calls[e] THEN Fail(S, c, Exc("KeyError", c))
                     ELSE IF result.t # "mbreply"
                     THEN Fail([S EXCEPT !.pipelined_calls[e] = @ \ {c}], c, Exc("AttributeError", c))
                     ELSE GetAsList([S EXCEPT !.pipelined_calls[e] = @ \ {c}], c, result.n)
                ELSE AfterPostProcess(S, c, result)

\* the coroutine of call c is resumed by the loop
ResumeCoroutine(S, c) ==
    CASE S.calls[c].pc = "wait"   -> GetAnswer(S, c)
      [] S.calls[c].pc = "gather" -> AfterList(S, c)
      [] S.calls[c].pc = "iter"   -> ExecLoop(S, c)
      [] S.calls[c].pc = "execgather" ->
            ExecLoop([S EXCEPT !.calls[c].pc = "execlist"], c)
      [] OTHER                    -> S

\* handle_results of MultiBulkReply m runs: every child Future that is done
\* is put on reply.queue, up to the first pending one; a child that holds an
\* exception ends the task.  A suspended reader of the queue is woken.
RECURSIVE HandleResultsLoop(_, _)
HandleResultsLoop(S, m) ==
    LET mb == S.mbs[m]
        i  == Len(mb.items) + 1
    IN
    IF i > mb.count THEN [S EXCEPT !.mbs[m].hr = "done"]
    ELSE IF mb.futs[i] = NoVal THEN [S EXCEPT !.mbs[m].hr = "wait"]
    ELSE IF IsException(mb.futs[i]) THEN [S EXCEPT !.mbs[m].hr = "dead"]
    ELSE HandleResultsLoop([S EXCEPT !.mbs[m].items = Append(@, mb.futs[i])], m)

HandleResults(S, m) ==
    LET before == Len(S.mbs[m].items)
        S1     == HandleResultsLoop(S, m)
        mb     == S1.mbs[m]
        wake   == /\ mb.rwait
                  /\ IF mb.rd = "call" /\ S1.calls[mb.rc].pc = "iter"
                     THEN Len(mb.items) > before
                     ELSE Len(mb.items) = mb.count
    IN
    IF wake
    THEN CallSoon([S1 EXCEPT !.mbs[m].rwait = FALSE],
                  IF mb.rd = "pubsub" THEN Handle("pubsub", m) ELSE Handle("call", mb.rc))
    ELSE S1

\* _handle_pubsub_multibulk_reply
HandlePubsubMultibulkReply(S, m) ==
    LET mb == S.mbs[m] IN
    CASE mb.ps = "new" ->
            IF mb.count <= 0 THEN [S EXCEPT !.mbs[m].ps = "dead"]
            ELSE LET S1 == [S EXCEPT !.mbs[m].ps = "gather", !.mbs[m].rd = "pubsub"] IN
                 IF Len(mb.items) = mb.count
                 THEN CallSoon(S1, Handle("pubsub", m))
                 ELSE [S1 EXCEPT !.mbs[m].rwait = TRUE]
      [] mb.ps = "gather" ->
            IF ~(mb.items[1].t = "bulk" /\ mb.items[1].s = "message")
            THEN [S EXCEPT !.mbs[m].ps = "dead"]
            ELSE [S EXCEPT !.mbs[m].ps = "done",
                           !.messages_queue[mb.e].q = Append(@, m)]
      [] OTHER -> S

\* ---------------------------------------------------------------- methods
\* in_blocking_call, in_use
InBlockingCall(e) == \E c \in pipelined_calls[e] : calls[c].blocking
\* in_use that forgets the pub/sub mode
InUseNoPubsub(e) == InBlockingCall(e) \/ in_transaction[e]

InUse(e) == InBlockingCall(e) \/ in_pubsub[e] \/ in_transaction[e]

\* a command method that goes straight to _query, whatever _in_transaction
MethodNestedMulti(S, e, cmd, watch, via, frompool) ==
    Query(S, e, cmd, FALSE, PostProcessorOf(cmd), IsBlockingCmd(cmd), via, frompool)

\* the body of a command method, run by the wrapper: commands go straight to
\* _query; multi and subscribe first check _in_transaction themselves.
\* watch = TRUE is multi(keys=[k]): WATCH is sent first, MULTI once it is
\* answered (see Return).
Method(S, e, cmd, watch, via, frompool) ==
    CASE cmd = "multi" ->
            IF S.in_transaction[e] THEN Raised(S, e, cmd, via, frompool, "MultiNested")
            ELSE IF watch THEN Query(S, e, "watch", FALSE, "none", FALSE, via, frompool)
            ELSE Query(S, e, "multi", FALSE, "none", FALSE, via, frompool)
      [] cmd = "subscribe" ->
            IF S.in_transaction[e] THEN Raised(S, e, cmd, via, frompool, "SubscribeInTransaction")
            ELSE Query(S, e, "subscribe", FALSE, "none", FALSE, via, frompool)
      [] OTHER ->
            Query(S, e, cmd, FALSE, PostProcessorOf(cmd), IsBlockingCmd(cmd), via, frompool)

\* the wrapper without its check of in_transaction
WrapperUnchecked(S, e, cmd, watch, via, frompool) ==
    Method(S, e, cmd, watch, via, frompool)

\* _command.wrapper, up to the first suspension of the method.  via is the
\* Transaction passed as first argument (0 when the command is called on
\* the protocol itself).
Wrapper(S, e, cmd, watch, via, frompool) ==
    IF S.in_transaction[e] /\ (via = 0 \/ via # S.transaction[e])
    THEN Raised(S, e, cmd, via, frompool, "InTransaction")
    ELSE IF S.in_transaction[e]
    THEN Method(S, e, cmd, watch, via, frompool)
    ELSE IF via # 0
    THEN Raised(S, e, cmd, via, frompool, "TypeError")   \* typecheck_input of the handle
    ELSE Method(S, e, cmd, watch, via, frompool)

\* Transaction.__getattr__ and the call of the wrapper it returns
TransactionGetattr(S, h, cmd) ==
    LET e == S.calls[h].e IN
    IF S.transaction[e] # h
    THEN Raised(S, e, cmd, h, FALSE, "TransactionFinished")
    ELSE Wrapper(S, e, cmd, FALSE, h, FALSE)

\* _exec up to its suspension in _query(b'exec', _bypass=True)
ExecStart(S, e, h) ==
    IF ~S.in_transaction[e] THEN Raised(S, e, "exec", h, FALSE, "NotInTransaction")
    ELSE LET c  == Len(S.calls) + 1
             S1 == Query([S EXCEPT !.trq[e] = None], e, "exec", TRUE, "none", FALSE, h, FALSE)
         IN [S1 EXCEPT !.calls[c].fap = S.trq[e], !.calls[c].fap0 = S.trq[e]]

\* _discard that sends DISCARD and leaves the transaction state as it is
DiscardStartKeepsState(S, e, h) ==
    IF ~S.in_transaction[e] THEN Raised(S, e, "discard", h, FALSE, "NotInTransaction")
    ELSE Query(S, e, "discard", FALSE, "none", FALSE, h, FALSE)

\* _discard up to its suspension in _query(b'discard')
DiscardStart(S, e, h) ==
    IF ~S.in_transaction[e] THEN Raised(S, e, "discard", h, FALSE, "NotInTransaction")
    ELSE Query([S EXCEPT !.trq[e] = Deque(<<>>),
                         !.in_transaction[e] = FALSE,
                         !.transaction[e] = 0],
               e, "discard", FALSE, "none", FALSE, h, FALSE)

\* _unwatch up to its suspension in _query(b'unwatch')
UnwatchStart(S, e, h) ==
    IF ~S.in_transaction[e] THEN Raised(S, e, "unwatch", h, FALSE, "NotInTransaction")
    ELSE Query(S, e, "unwatch", FALSE, "none", FALSE, h, FALSE)

\* a pool that does not rotate its list
ShuffleProtocolsNot(p) == p

\* _shuffle_protocols
ShuffleProtocols(p) == IF p = <<>> THEN p ELSE Tail(p) \o <<Head(p)>>

\* selection that does not look at in_use
GetFreeProtocolFirst(p) == IF p = <<>> THEN 0 ELSE p[1]

\* _get_free_protocol on the shuffled list: the first protocol not in use,
\* 0 when there is none
GetFreeProtocol(p) ==
    LET free == {i \in 1..Len(p) : ~InUse(p[i])} IN
    IF free = {} THEN 0
    ELSE p[CHOOSE i \in free : \A j \in free : i <= j]

\* ---------------------------------------------------------------- bytes
\* The decoder on the bytes of the transport: data_received splits _buffer
\* at each CR LF and gives the line to _line_received, or to
\* _handle_bulk_reply_part while a bulk body is being read.  replies is the
\* sequence of the values given to _push_answer and of the multi bulk
\* headers given to _handle_multi_bulk_reply; exc says that the call of
\* data_received under way has raised, raised that some call has.  sent are
\* the bytes the server has sent (frames replies), fed how many of them
\* data_received has been given; cut_crlf and cut_body record that a chunk
\* ended between CR and LF, or inside the body of a bulk reply.
CR == "CR"
LF == "LF"
CRLF == <<CR, LF>>
Digits == <<"0", "1", "2", "3", "4", "5", "6", "7", "8", "9">>
IsDigit(b) == \E i \in 1..10 : Digits[i] = b
DigitVal(b) == (CHOOSE i \in 1..10 : Digits[i] = b) - 1

NewDecoder ==
    [sent |-> <<>>, frames |-> 0, fed |-> 0, cut_crlf |-> FALSE, cut_body |-> FALSE,
     expect |-> <<>>, ends |-> <<>>,
     buffer |-> <<>>, in_bulk_reply |-> FALSE,
     bulk_reply_len |-> 0, bulk_reply_buffer |-> <<>>, replies |-> <<>>,
     exc |-> FALSE, raised |-> FALSE]

\* int(line) can be computed
IsInt(line) ==
    LET ds == IF line # <<>> /\ Head(line) = "-" THEN Tail(line) ELSE line
    IN  ds # <<>> /\ \A i \in 1..Len(ds) : IsDigit(ds[i])

RECURSIVE NatOf(_)
NatOf(ds) ==
    IF ds = <<>> THEN 0
    ELSE 10 * NatOf(SubSeq(ds, 1, Len(ds) - 1)) + DigitVal(ds[Len(ds)])

\* int(line)
IntOf(line) == IF Head(line) = "-" THEN 0 - NatOf(Tail(line)) ELSE NatOf(line)

\* the position of the first CR LF of b, 0 when it has none
FindCRLF(b) ==
    LET at == {i \in 1..(Len(b) - 1) : b[i] = CR /\ b[i + 1] = LF}
    IN  IF at = {} THEN 0 ELSE CHOOSE i \in at : \A j \in at : i <= j

Reply(D, r) == [D EXCEPT !.replies = Append(@, r)]
ValueError(D) == [D EXCEPT !.exc = TRUE, !.raised = TRUE]

\* _handle_bulk_reply
HandleBulkReply(D, line) ==
    IF ~IsInt(line) THEN ValueError(D)
    ELSE IF IntOf(line) = -1 THEN Reply(D, [t |-> "nil", v |-> <<>>])
    ELSE [D EXCEPT !.in_bulk_reply = TRUE, !.bulk_reply_len = IntOf(line),
                   !.bulk_reply_buffer = <<>>]

\* _handle_bulk_reply_part that does not put back the CR LF at which
\* data_received has split the line
HandleBulkReplyPartNoCRLF(D, line) ==
    LET b == D.bulk_reply_buffer \o line IN
    IF Len(b) >= D.bulk_reply_len
    THEN [Reply(D, [t |-> "bulk", v |-> SubSeq(b, 1, D.bulk_reply_len)])
             EXCEPT !.in_bulk_reply = FALSE, !.bulk_reply_len = 0,
                    !.bulk_reply_buffer = <<>>]
    ELSE [D EXCEPT !.bulk_reply_buffer = b]

\* _handle_bulk_reply_part
HandleBulkReplyPart(D, line) ==
    LET b == D.bulk_reply_buffer \o line \o CRLF IN
    IF Len(b) > D.bulk_reply_len
    THEN [Reply(D, [t |-> "bulk", v |-> SubSeq(b, 1, D.bulk_reply_len)])
             EXCEPT !.in_bulk_reply = FALSE, !.bulk_reply_len = 0,
                    !.bulk_reply_buffer = <<>>]
    ELSE [D EXCEPT !.bulk_reply_buffer = b]

\* _line_received
LineReceivedBytes(D, line) ==
    LET first_byte == SubSeq(line, 1, 1)
        rest       == SubSeq(line, 2, Len(line))
    IN  CASE first_byte = <<"+">> -> Reply(D, [t |-> "status", v |-> rest])
          [] first_byte = <<"-">> -> Reply(D, [t |-> "error", v |-> rest])
          [] first_byte = <<"$">> -> HandleBulkReply(D, rest)
          [] first_byte = <<"*">> ->
                IF IsInt(rest) THEN Reply(D, [t |-> "mb", v |-> rest]) ELSE ValueError(D)
          [] first_byte = <<":">> ->
                IF IsInt(rest) THEN Reply(D, [t |-> "int", v |-> rest]) ELSE ValueError(D)
          [] OTHER -> D      \* print ('err...', line)

\* the while loop of data_received
RECURSIVE DecodeLoop(_)
DecodeLoop(D) ==
    LET i == FindCRLF(D.buffer) IN
    IF D.exc \/ i = 0 THEN D
    ELSE LET line == SubSeq(D.buffer, 1, i - 1)
             D1   == [D EXCEPT !.buffer = SubSeq(@, i + 2, Len(@))]
         IN  DecodeLoop(IF ~D.in_bulk_reply THEN LineReceivedBytes(D1, line)
                        ELSE HandleBulkReplyPart(D1, line))

\* data_received that forgets what the last chunk left in _buffer
DataReceivedBytesNoBuffer(D, data) ==
    DecodeLoop([D EXCEPT !.buffer = data, !.exc = FALSE])

\* data_received(data)
DataReceivedBytes(D, data) ==
    DecodeLoop([D EXCEPT !.buffer = @ \o data, !.exc = FALSE])

\* ---------------------------------------------------------------- server
\* The Redis server on the other end of each transport.  It answers the
\* commands of a connection in the order they were written.  Its state per
\* connection: next (index in written of the next command to answer),
\* multi (MULTI is open), queued (the commands queued in it), dirty (a
\* queued command was refused), watch (WATCH is in force), sub (the
\* connection has subscribed), pub (number of messages published to it).
\* The reply lines of call c carry id c; the lines of the k-th published
\* message carry id -k.  insub is the set of the messages that were published
\* when the protocol had already set _in_pubsub, junk the set of the calls
\* that were answered with a line that starts with no reply prefix.
MaxPublished == 2

NewServer == [next |-> 1, multi |-> FALSE, queued |-> <<>>, dirty |-> FALSE,
              watch |-> FALSE, sub |-> FALSE, pub |-> 0, insub |-> {},
              junk |-> {}]

SubscribeAck(id) ==
    << Val("mb", "", 3, id), Kid(Val("bulk", "subscribe", 0, id)),
       Kid(Val("bulk", "ch", 0, id)), Kid(Val("int", "", 1, id)) >>

\* the replies the server may give to command cmd outside MULTI
PlainReplies(cmd, id) ==
    CASE cmd = "set"        -> { <<StatusReply("OK", id)>>, <<Exc("server", id)>> }
      [] cmd = "exists"     -> { <<Val("int", "", 1, id)>> }
      [] cmd = "getset"     -> { <<Val("bulk", "old", 0, id)>> }
      [] cmd = "blpop"      -> { << Val("mb", "", 2, id), Kid(Val("bulk", "q", 0, id)),
                                    Kid(Val("bulk", "v", 0, id)) >>,
                                 << Val("mb", "", -1, id) >>,
                                 << Exc("server", id) >> }
      [] cmd = "brpoplpush" -> { <<Val("bulk", "v", 0, id)>>, <<Exc("server", id)>> }
      [] cmd = "subscribe"  -> { SubscribeAck(id) }
      [] cmd = "unwatch"    -> { <<StatusReply("OK", id)>> }
      [] cmd \in {"auth", "select"} -> { <<StatusReply("OK", id)>>, <<Exc("server", id)>> }
      [] OTHER              -> { <<Exc("server", id)>> }

\* what EXEC returns for one queued command
ChildReplies(cmd, id) ==
    CASE cmd = "blpop"      -> { << Val("mb", "", -1, id) >>,
                                 << Val("mb", "", 2, id), Val("bulk", "q", 0, id),
                                    Val("bulk", "v", 0, id) >> }
      [] cmd = "brpoplpush" -> { << Val("nil", "", 0, id) >> }
      [] OTHER              -> PlainReplies(cmd, id)

RECURSIVE ExecBodies(_)
ExecBodies(qs) ==
    IF qs = <<>> THEN { <<>> }
    ELSE { SeqMap(Kid, a) \o b : a \in ChildReplies(calls[Head(qs)].cmd, Head(qs)),
                    b \in ExecBodies(Tail(qs)) }

\* the set of [frames, sv]: reply lines and next state of the connection
ServerAnswers(sv, c) ==
    LET cmd  == calls[c].cmd
        sv1  == [sv EXCEPT !.next = @ + 1]
        ends == [sv1 EXCEPT !.multi = FALSE, !.queued = <<>>, !.dirty = FALSE, !.watch = FALSE]
        R(fs, s) == [frames |-> fs, sv |-> s]
    IN
    IF sv.multi
    THEN CASE cmd \in {"multi", "watch"} -> { R(<<Exc("server", c)>>, sv1) }
           [] cmd = "discard" -> { R(<<StatusReply("OK", c)>>, ends) }
           [] cmd = "exec" ->
                IF sv.dirty THEN { R(<<Exc("server", c)>>, ends) }
                ELSE { R(<<Val("mb", "", Len(sv.queued), c)>> \o b,
                         [ends EXCEPT !.sub = sv.sub \/
                               \E i \in 1..Len(sv.queued) : calls[sv.queued[i]].cmd = "subscribe"])
                       : b \in ExecBodies(sv.queued) }
                     \cup (IF sv.watch THEN { R(<<Val("mb", "", -1, c)>>, ends) } ELSE {})
           [] OTHER ->
                { R(<<StatusReply("QUEUED", c)>>, [sv1 EXCEPT !.queued = Append(@, c)]),
                  R(<<Exc("server", c)>>, [sv1 EXCEPT !.dirty = TRUE]) }
    ELSE IF sv.sub /\ cmd # "subscribe"
    THEN { R(<<Exc("server", c)>>, sv1) }
    ELSE CASE cmd = "multi"     -> { R(<<StatusReply("OK", c)>>, [sv1 EXCEPT !.multi = TRUE]) }
           [] cmd = "watch"     -> { R(<<StatusReply("OK", c)>>, [sv1 EXCEPT !.watch = TRUE]) }
           [] cmd = "subscribe" -> { R(SubscribeAck(c), [sv1 EXCEPT !.sub = TRUE]) }
           [] OTHER             -> { R(fs, sv1) : fs \in PlainReplies(cmd, c) }

\* ---------------------------------------------------------------- actions
\* the protocols as connection_made leaves them, with what surrounds them
InitProtocols ==
    /\ queue = [e \in Engines |-> <<>>]
    /\ buffer = [e \in Engines |-> <<>>]
    /\ in_pubsub = [e \in Engines |-> FALSE]
    /\ in_transaction = [e \in Engines |-> FALSE]
    /\ transaction = [e \in Engines |-> 0]
    /\ trq = [e \in Engines |-> None]
    /\ pipelined_calls = [e \in Engines |-> {}]
    /\ messages_queue = [e \in Engines |-> None]
    /\ calls = <<>>
    /\ mbs = <<>>
    /\ written = [e \in Engines |-> <<>>]
    /\ srv = [e \in Engines |-> NewServer]
    /\ wire = [e \in Engines |-> <<>>]
    /\ closed = [e \in Engines |-> 0]
    /\ ready = <<>>
    /\ last = [sel |-> 0]
    /\ dec = NewDecoder

\* a pool that Connection.create has returned, without password, db 0
Init ==
    /\ pool = [i \in 1..PoolSize |-> i]
    /\ create = [password |-> FALSE, db |-> 0, connecting |-> 0]
    /\ InitProtocols

UserCmds == {"set", "blpop", "multi", "subscribe"}
TxnCmds  == {"set", "exists", "blpop", "multi"}
MaxPoolCalls == 3    \* commands the pool hands to a protocol

\* The server answers a command as soon as it is written: how late the
\* answer reaches the protocol is the choice of when ReadReady happens.
IsClosed(e) == closed[e] # 0
ServerIdle == \A e \in Engines : IsClosed(e) \/ srv[e].next > Len(written[e])

\* commands called so far: multi(keys=...) makes two _query calls, its
\* WATCH and, once that is answered, its MULTI
UserCalls == Len(calls) - Cardinality({c \in 1..Len(calls) :
                                          \/ calls[c].cmd = "watch" /\ calls[c].pc = "done"
                                          \/ calls[c].cmd \in {"auth", "select"}})
Room == ServerIdle /\ UserCalls < MaxCalls

\* a caller invokes a command on a protocol directly
DirectCall(e, cmd, watch) ==
    /\ Room
    /\ Install(Wrapper(St, e, cmd, watch, 0, FALSE))
    /\ UNCHANGED <<pool, srv, wire, closed, last, dec, create>>

\* Connection.__getattr__ and the call of the command it returned
PoolCall(cmd, watch) ==
    LET p == ShuffleProtocols(pool)
        e == GetFreeProtocol(p)
    IN
    /\ pool' = p
    /\ IF e = 0
       THEN /\ ServerIdle
            /\ last' = [last EXCEPT !.sel = 0]
            /\ UNCHANGED <<queue, buffer, in_pubsub, in_transaction, transaction, trq,
                           pipelined_calls, messages_queue, calls, mbs, written, ready>>
       ELSE /\ Room /\ UserCalls < MaxPoolCalls
            /\ last' = [last EXCEPT !.sel = e]
            /\ Install(Wrapper(St, e, cmd, watch, 0, TRUE))
    /\ UNCHANGED <<srv, wire, closed, dec, create>>

\* the Transaction objects that exist
Handles == {h \in 1..Len(calls) : calls[h].cmd = "multi" /\ calls[h].pc = "done"}

\* a command called on a Transaction
TransactionCall(h, cmd) ==
    /\ Room
    /\ Install(TransactionGetattr(St, h, cmd))
    /\ UNCHANGED <<pool, srv, wire, closed, last, dec, create>>

\* Transaction.exec
TransactionExec(h) ==
    /\ Room
    /\ Install(ExecStart(St, calls[h].e, h))
    /\ UNCHANGED <<pool, srv, wire, closed, last, dec, create>>

\* Transaction.discard
TransactionDiscard(h) ==
    /\ Room
    /\ Install(DiscardStart(St, calls[h].e, h))
    /\ UNCHANGED <<pool, srv, wire, closed, last, dec, create>>

\* Transaction.unwatch
TransactionUnwatch(h) ==
    /\ Room
    /\ Install(UnwatchStart(St, calls[h].e, h))
    /\ UNCHANGED <<pool, srv, wire, closed, last, dec, create>>

\* the server answers the next command of connection e
ServerReply(e) ==
    /\ ~IsClosed(e)
    /\ srv[e].next <= Len(written[e])
    /\ \E r \in ServerAnswers(srv[e], written[e][srv[e].next]) :
          /\ srv' = [srv EXCEPT ![e] = r.sv]
          /\ wire' = [wire EXCEPT ![e] = @ \o r.frames]
    /\ UNCHANGED <<pool, queue, buffer, in_pubsub, in_transaction, transaction, trq,
                   pipelined_calls, messages_queue, calls, mbs, written, closed, ready, last, dec, create>>

PublishedMessage(id) ==
    << Val("mb", "", 3, id), Kid(Val("bulk", "message", 0, id)),
       Kid(Val("bulk", "ch", 0, id)), Kid(Val("bulk", "hi", 0, id)) >>

\* the server sends a published message to a subscribed connection
ServerPublish(e) ==
    /\ ServerIdle
    /\ ~IsClosed(e)
    /\ srv[e].sub /\ ~srv[e].multi
    /\ srv[e].pub < MaxPublished
    /\ srv' = [srv EXCEPT ![e].pub = @ + 1,
                          ![e].insub = IF in_pubsub[e] THEN @ \cup {srv[e].pub + 1} ELSE @]
    /\ wire' = [wire EXCEPT ![e] = @ \o PublishedMessage(-(srv[e].pub + 1))]
    /\ UNCHANGED <<pool, queue, buffer, in_pubsub, in_transaction, transaction, trq,
                   pipelined_calls, messages_queue, calls, mbs, written, closed, ready, last, dec, create>>

Scheduled(h) == \E i \in 1..Len(ready) : ready[i] = h

\* the loop finds the socket of e readable and schedules its reader
ReadReady(e) ==
    /\ ServerIdle
    /\ ~IsClosed(e)
    /\ wire[e] # <<>>
    /\ ~Scheduled(Handle("data", e))
    /\ ready' = Append(ready, Handle("data", e))
    /\ UNCHANGED <<pool, queue, buffer, in_pubsub, in_transaction, transaction, trq,
                   pipelined_calls, messages_queue, calls, mbs, written, srv, wire, closed, last, dec, create>>

\* the transport of e is closed; connection_lost is scheduled
TransportClosed(e) ==
    /\ ServerIdle
    /\ ~IsClosed(e)
    /\ closed' = [closed EXCEPT ![e] = 1 + Len(calls)]
    /\ wire' = [wire EXCEPT ![e] = <<>>]
    /\ ready' = Append(ready, Handle("lost", e))
    /\ UNCHANGED <<pool, queue, buffer, in_pubsub, in_transaction, transaction, trq,
                   pipelined_calls, messages_queue, calls, mbs, written, srv, last, dec, create>>

Popped == [St EXCEPT !.ready = Tail(@)]

\* data_received with the first n lines on the wire
DataReceived ==
    /\ ServerIdle
    /\ ready # <<>> /\ Head(ready).h = "data"
    /\ LET e == Head(ready).x IN
       IF wire[e] = <<>>
       THEN Install(Popped) /\ wire' = wire
       ELSE \E n \in 1..MaxChunk :
              /\ n <= Len(wire[e])
              /\ wire' = [wire EXCEPT ![e] = SubSeq(@, n + 1, Len(@))]
              /\ Install(DataLoop([Popped EXCEPT !.buffer[e] = @ \o SubSeq(wire[e], 1, n)], e))
    /\ UNCHANGED <<pool, srv, closed, last, dec, create>>

\* connection_lost
ConnectionLost ==
    /\ ServerIdle
    /\ ready # <<>> /\ Head(ready).h = "lost"
    /\ Install(ConnectionLostLoop(Popped, Head(ready).x))
    /\ UNCHANGED <<pool, srv, wire, closed, last, dec, create>>

\* a suspended command coroutine is resumed
RunCoroutine ==
    /\ ServerIdle
    /\ ready # <<>> /\ Head(ready).h = "call"
    /\ Install(ResumeCoroutine(Popped, Head(ready).x))
    /\ UNCHANGED <<pool, srv, wire, closed, last, dec, create>>

\* a handle_results task runs
RunHandleResults ==
    /\ ServerIdle
    /\ ready # <<>> /\ Head(ready).h = "hr"
    /\ Install(HandleResults(Popped, Head(ready).x))
    /\ UNCHANGED <<pool, srv, wire, closed, last, dec, create>>

\* a _handle_pubsub_multibulk_reply task runs
RunPubsub ==
    /\ ServerIdle
    /\ ready # <<>> /\ Head(ready).h = "pubsub"
    /\ Install(HandlePubsubMultibulkReply(Popped, Head(ready).x))
    /\ UNCHANGED <<pool, srv, wire, closed, last, dec, create>>

\* get_next_published when a message is on _messages_queue (on an empty
\* queue the caller waits until this is the case)
GetNextPublished(e) ==
    /\ ServerIdle
    /\ ~messages_queue[e].none
    /\ messages_queue[e].q # <<>>
    /\ LET m == Head(messages_queue[e].q)
           k == 1 + Cardinality({x \in 1..Len(mbs) : mbs[x].e = e /\ mbs[x].out > 0})
       IN Install([St EXCEPT !.messages_queue[e].q = Tail(@), !.mbs[m].out = k])
    /\ UNCHANGED <<pool, srv, wire, closed, last, dec, create>>

\* One protocol used directly: pipelined commands and transactions.
EngineCmds == {"set", "blpop", "multi"}

Next ==
    \/ \E e \in Engines : ServerReply(e)
    \/ \E cmd \in EngineCmds, w \in BOOLEAN :
          (w => cmd = "multi") /\ DirectCall(1, cmd, w)
    \/ \E h \in Handles, cmd \in TxnCmds : TransactionCall(h, cmd)
    \/ \E h \in Handles : TransactionExec(h)
    \/ \E h \in Handles : TransactionDiscard(h)
    \/ \E e \in Engines : ReadReady(e)
    \/ DataReceived
    \/ RunCoroutine
    \/ RunHandleResults

Spec == Init /\ [][Next]_vars

\* ---------------------------------------------------------------- properties
\* the reply lines of connection e that _line_received has not yet seen
Undelivered(e) == buffer[e] \o wire[e]

\* the first line of the server's reply to call c has been dispatched
TopLineReceived(e, i) ==
    /\ i < srv[e].next
    /\ \A k \in 1..Len(Undelivered(e)) :
          ~(Undelivered(e)[k].id = written[e][i] /\ Undelivered(e)[k].top)

\* C1: on one engine the i-th command written is resolved by the i-th
\* top-level reply line received: the slot Future of a command is set at
\* most once, with the first line of the reply to that very command, not
\* before the slots of the commands written before it, and as soon as that
\* line has been dispatched.
C1_PipelineOrder ==
    \A e \in Engines : \A i \in 1..Len(written[e]) :
        LET c == written[e][i] IN
        /\ calls[c].nset <= 1
        /\ calls[c].f # "pending" => calls[c].raw.id = c /\ calls[c].raw.top
        /\ calls[c].f # "pending" => \A j \in 1..(i - 1) : calls[written[e][j]].f # "pending"
        /\ TopLineReceived(e, i) => calls[c].f # "pending"

\* two commands in flight together were answered by one data_received: both
\* slots are set, each by its own reply, and neither coroutine has run yet
C1_Witness ==
    \E c, d \in 1..Len(calls) :
        /\ c < d /\ calls[c].e = calls[d].e
        /\ calls[c].f = "result" /\ calls[d].f = "result"
        /\ calls[c].pc = "wait" /\ calls[d].pc = "wait"
        /\ calls[c].raw.id = c /\ calls[d].raw.id = d

\* C10: while an engine is in a transaction, a command invoked on the
\* engine itself (no Transaction passed) raises, writes nothing to the
\* transport and leaves _queue, _pipelined_calls and
\* _transaction_response_queue as they were.
C10_DirectCallRejected ==
    [][ \A e \in Engines :
          ( /\ in_transaction[e]
            /\ Len(calls') = Len(calls) + 1
            /\ calls'[Len(calls')].e = e
            /\ calls'[Len(calls')].via = 0 )
          => /\ calls'[Len(calls')].pc = "failed"
             /\ calls'[Len(calls')].f = "none"
             /\ written'[e] = written[e]
             /\ queue'[e] = queue[e]
             /\ pipelined_calls'[e] = pipelined_calls[e]
             /\ trq'[e] = trq[e] ]_vars

\* a direct call was refused on an engine in a transaction
C10_Witness ==
    \E c \in 1..Len(calls) :
        /\ calls[c].via = 0 /\ calls[c].pc = "failed" /\ calls[c].f = "none"
        /\ calls[c].res.s = "InTransaction"
        /\ in_transaction[calls[c].e]

\* One protocol whose transport can be closed at any moment.
NextLost ==
    \/ \E e \in Engines : ServerReply(e)
    \/ \E cmd \in EngineCmds, w \in BOOLEAN :
          (w => cmd = "multi") /\ DirectCall(1, cmd, w)
    \/ \E h \in Handles, cmd \in TxnCmds : TransactionCall(h, cmd)
    \/ \E h \in Handles : TransactionExec(h)
    \/ \E e \in Engines : ReadReady(e)
    \/ TransportClosed(1)
    \/ DataReceived
    \/ ConnectionLost
    \/ RunCoroutine
    \/ RunHandleResults

SpecLost == Init /\ [][NextLost]_vars

\* The pool of protocols: every command goes through Connection.__getattr__.
\* The loop polls the sockets when it has no callback left to run.
NextPool ==
    \/ \E e \in Engines : ServerReply(e)
    \/ \E cmd \in UserCmds : PoolCall(cmd, FALSE)
    \/ \E e \in Engines : ready = <<>> /\ ReadReady(e)
    \/ DataReceived
    \/ RunCoroutine
    \/ RunHandleResults

SpecPool == Init /\ [][NextPool]_vars

\* One protocol that subscribes, to which messages are published.
PubsubCmds == {"subscribe", "set"}
MaxPubsubCalls == 2  \* commands called on the subscribing protocol

NextPubsub ==
    \/ \E e \in Engines : ServerReply(e)
    \/ ServerPublish(1)
    \/ \E cmd \in PubsubCmds : UserCalls < MaxPubsubCalls /\ DirectCall(1, cmd, FALSE)
    \/ GetNextPublished(1)
    \/ \E e \in Engines : ReadReady(e)
    \/ DataReceived
    \/ RunCoroutine
    \/ RunHandleResults
    \/ RunPubsub

SpecPubsub == Init /\ [][NextPubsub]_vars

\* nothing is scheduled, on the wire or unanswered: the state can only
\* change by a new call
Quiescent ==
    /\ ready = <<>>
    /\ ServerIdle
    /\ \A e \in Engines : Undelivered(e) = <<>>

\* what post-processor pp makes of value v
PostProcessed(pp, v) ==
    CASE pp = "int_to_bool"       -> Val("bool", "", IF v.n # 0 THEN 1 ELSE 0, v.id)
      [] pp = "multibulk_as_list" -> Val("list", "", v.n, v.id)
      [] OTHER                    -> v

\* C2: after MULTI, K commands queued through the handle and an EXEC
\* answered by MultiBulk(K), once the K children have been received and
\* every callback has run, the j-th detached Future holds the j-th child
\* with the post-processor of the j-th command applied (an Error child as
\* the exception of the j-th Future).
C2_ExecResolvesQueued ==
    \A x \in 1..Len(calls) :
        LET cr == calls[x] IN
        ( /\ cr.cmd = "exec" /\ cr.f = "result" /\ cr.raw.t = "mbreply"
          /\ ~cr.fap0.none
          /\ mbs[cr.raw.n].count = Len(cr.fap0.q)
          /\ \A j \in 1..Len(cr.fap0.q) : calls[cr.fap0.q[j].f].via = cr.via
          /\ \A j \in 1..Len(cr.fap0.q) : mbs[cr.raw.n].futs[j] # NoVal
          /\ Quiescent )
        => \A j \in 1..Len(cr.fap0.q) :
              LET d     == cr.fap0.q[j].f
                  child == mbs[cr.raw.n].futs[j]
              IN  IF IsException(child)
                  THEN calls[d].uf = "exception" /\ calls[d].ufval = child
                  ELSE /\ calls[d].uf = "result"
                       /\ calls[d].ufval = PostProcessed(calls[d].pp, child)

\* C7: a server Error answering one command fails only that command: every
\* other slot set on the engine holds the reply to its own command, and once
\* the failed coroutine has ended the engine is in a blocking call exactly
\* if it would be with that call removed from _pipelined_calls, as it is
\* when a command completes normally.
C7_ErrorIsLocal ==
    \A c \in 1..Len(calls) :
        LET e == calls[c].e IN
        ( calls[c].f = "exception" /\ calls[c].raw.s = "server" /\ calls[c].pc = "failed" )
        => /\ \A d \in 1..Len(calls) :
                (calls[d].e = e /\ calls[d].f \in {"result", "exception"}) => calls[d].raw.id = d
           /\ InBlockingCall(e) <=> \E d \in pipelined_calls[e] \ {c} : calls[d].blocking

\* C8: when EXEC is answered by a Nil multi bulk (*-1), exec raises and
\* every Future stored in the transaction queue holds an exception once the
\* exec coroutine has ended.
C8_NilExecAborts ==
    \A x \in 1..Len(calls) :
        LET cr == calls[x] IN
        ( /\ cr.cmd = "exec" /\ cr.f = "result" /\ cr.raw.t = "mbreply"
          /\ mbs[cr.raw.n].count = -1
          /\ cr.pc \in {"done", "failed"} )
        => /\ cr.pc = "failed"
           /\ \A j \in 1..Len(cr.fap0.q) : calls[cr.fap0.q[j].f].uf = "exception"

\* C9: when discard has been called on a transaction, every detached Future
\* the transaction gave to a caller before holds an exception.
C9_DiscardFailsQueued ==
    \A x \in 1..Len(calls) :
        ( calls[x].cmd = "discard" /\ calls[x].f # "none" /\ calls[x].pc \in {"done", "failed"} )
        => \A d \in 1..(x - 1) :
              (calls[d].via = calls[x].via /\ calls[d].uf # "none") => calls[d].uf = "exception"

\* the reply to call c has been received and post-processed: by its own
\* coroutine, or by exec for a command queued in a transaction
PostProcessedReply(c) ==
    \/ calls[c].pc = "done" /\ calls[c].uf = "none"
    \/ calls[c].uf = "result"

\* C6: a blocking command keeps its engine in use from the moment it is
\* written until its reply is received, and once the reply has been received
\* and post-processed the call is no longer among the engine's blocking
\* calls (so the engine is idle when it is in Normal mode and no other
\* blocking call is active).
C6_BlockingHoldsEngine ==
    \A c \in 1..Len(calls) :
        calls[c].blocking =>
            /\ calls[c].f = "pending" => (c \in pipelined_calls[calls[c].e] /\ InUse(calls[c].e))
            /\ PostProcessedReply(c) => c \notin pipelined_calls[calls[c].e]

\* a blocking command answered by its list, through with its post-processing,
\* on an engine that is idle again
C6_Witness ==
    \E c \in 1..Len(calls) :
        /\ calls[c].blocking /\ calls[c].pc = "done" /\ calls[c].uf = "none"
        /\ calls[c].res.t = "list"
        /\ c \notin pipelined_calls[calls[c].e]
        /\ ~InUse(calls[c].e)

\* C3: once connection_lost has run on an engine and every callback it
\* scheduled has run, no call made on the engine before the transport was
\* closed is still waiting (for its reply slot, or for the items of a
\* multi bulk) and no detached Future it was given is still pending.
C3_NoFutureLeftAfterLoss ==
    \A e \in Engines :
        ( IsClosed(e) /\ ready = <<>> )
        => \A c \in 1..Len(calls) :
              (calls[c].e = e /\ c < closed[e])
              => /\ calls[c].pc \notin {"wait", "gather", "iter", "execgather"}
                 /\ calls[c].uf # "pending"

\* C4: a step of Connection.__getattr__ that selects a protocol selects one
\* whose in_use was false when the step was taken.
C4_SelectedEngineFree ==
    [][(pool' # pool /\ last'.sel # 0) => ~InUse(last'.sel)]_vars

\* the pool selected the second protocol of its rotated list: the first one
\* was in use
C4_Witness ==
    /\ last.sel # 0
    /\ last.sel # pool[1]
    /\ InUse(pool[1])

\* the engine is in a transaction, subscribed, or a blocking command on it
\* has not finished
Busy(e) ==
    \/ in_transaction[e]
    \/ in_pubsub[e]
    \/ \E c \in 1..Len(calls) :
          calls[c].e = e /\ calls[c].blocking /\ calls[c].pc \in {"wait", "gather"}

\* C5: a step of Connection.__getattr__ raises PoolExhausted exactly when
\* every engine is in a transaction, subscribed or executing a blocking
\* command.
C5_ExhaustedExactlyWhenBusy ==
    [][pool' # pool => (last'.sel = 0 <=> \A e \in Engines : Busy(e))]_vars

\* C11: multi called on an engine that is in a transaction, on the protocol
\* itself or through the Transaction, raises: nothing is written, the engine
\* stays in the transaction, and _transaction_response_queue and
\* _transaction are the same as before.
C11_NestedMultiRejected ==
    [][ \A e \in Engines :
          ( /\ in_transaction[e]
            /\ Len(calls') = Len(calls) + 1
            /\ calls'[Len(calls')].e = e
            /\ calls'[Len(calls')].cmd = "multi" )
          => /\ calls'[Len(calls')].pc = "failed"
             /\ calls'[Len(calls')].f = "none"
             /\ written'[e] = written[e]
             /\ in_transaction'[e]
             /\ trq'[e] = trq[e]
             /\ transaction'[e] = transaction[e] ]_vars

\* multi was called through the current Transaction and refused
C11_Witness ==
    \E c \in 1..Len(calls) :
        /\ calls[c].cmd = "multi" /\ calls[c].via # 0
        /\ calls[c].pc = "failed" /\ calls[c].res.s = "MultiNested"
        /\ in_transaction[calls[c].e]
        /\ transaction[calls[c].e] = calls[c].via

\* the header line of the k-th message published to e has been dispatched
MessageHeaderReceived(e, k) ==
    /\ k \in 1..srv[e].pub
    /\ ~\E j \in 1..Len(Undelivered(e)) :
           Undelivered(e)[j].id = -k /\ Undelivered(e)[j].top

\* C12: every message the server sends after the acknowledgement of
\* SUBSCRIBE is handed to _handle_pubsub_multibulk_reply when its header
\* line is dispatched, and no reply slot is ever set with a message, however
\* the dispatch of lines interleaves with the subscribe coroutine.
C12_MessagesGoToPubsub ==
    /\ \A e \in Engines : \A k \in 1..srv[e].pub :
          MessageHeaderReceived(e, k)
          => \E m \in 1..Len(mbs) : mbs[m].e = e /\ mbs[m].id = -k /\ mbs[m].ps # "none"
    /\ \A c \in 1..Len(calls) : calls[c].raw.id >= 0

\* the numbers of the messages get_next_published has returned on e, in the
\* order it returned them, followed by those waiting on _messages_queue
PublishedOrder(e) ==
    LET nOut == Cardinality({m \in 1..Len(mbs) : mbs[m].e = e /\ mbs[m].out > 0})
        q    == messages_queue[e].q
    IN  [i \in 1..(nOut + Len(q)) |->
            IF i <= nOut
            THEN -mbs[CHOOSE m \in 1..Len(mbs) : mbs[m].e = e /\ mbs[m].out = i].id
            ELSE -mbs[q[i - nOut]].id]

\* C13: the messages returned by get_next_published and those waiting on
\* _messages_queue are in the order the server sent them, none twice; and a
\* message published to a protocol in pub/sub mode, once all its lines have
\* been handed to data_received and every callback has run, has been put on
\* _messages_queue.
C13_PublishedInOrder ==
    \A e \in Engines :
        /\ \A i, j \in DOMAIN PublishedOrder(e) :
              i < j => PublishedOrder(e)[i] < PublishedOrder(e)[j]
        /\ \A k \in srv[e].insub :
              ( /\ ready = <<>>
                /\ ~\E j \in 1..Len(wire[e]) : wire[e][j].id = -k )
              => \E m \in 1..Len(mbs) :
                    mbs[m].e = e /\ mbs[m].id = -k /\ mbs[m].ps = "done"

\* C14: once _in_pubsub is set on a protocol it stays set, the protocol
\* stays in use, and no later selection of the pool returns it.
C14_PubsubIsSticky ==
    [][\A e \in Engines :
          in_pubsub[e] => /\ in_pubsub'[e]
                          /\ InUse(e)'
                          /\ (pool' # pool => last'.sel # e)]_vars

\* a protocol is in pub/sub mode and the pool has since given a command to
\* the other protocol
C14_Witness ==
    \E e \in Engines : \E c, d \in 1..Len(calls) :
        /\ in_pubsub[e]
        /\ calls[c].e = e /\ calls[c].cmd = "subscribe" /\ calls[c].pc = "done"
        /\ c < d /\ calls[d].e # e /\ calls[d].frompool
        /\ last.sel = calls[d].e

\* The pool of protocols when transports can be closed.
MaxLostCalls == 2      \* commands called through a pool that loses transports

NextPoolLost ==
    \/ \E e \in Engines : ServerReply(e)
    \/ \E cmd \in EngineCmds : UserCalls < MaxLostCalls /\ PoolCall(cmd, FALSE)
    \/ \E e \in Engines : ready = <<>> /\ ReadReady(e)
    \/ \E e \in Engines : TransportClosed(e)
    \/ DataReceived
    \/ ConnectionLost
    \/ RunCoroutine
    \/ RunHandleResults

SpecPoolLost == Init /\ [][NextPoolLost]_vars

\* connection_lost has run on the protocol
Lost(e) == IsClosed(e) /\ ~Scheduled(Handle("lost", e))

\* C15: once connection_lost has run on a protocol, no selection of the pool
\* returns that protocol and no reply slot waits in its _queue (nothing can
\* resolve one: the transport delivers no more data).
C15_LostEngineIsClosed ==
    [][\A e \in Engines :
          Lost(e)' => /\ queue'[e] = <<>>
                      /\ (pool' # pool => last'.sel # e)]_vars

\* The decoder alone: the server sends well-formed replies, the transport
\* hands their bytes to data_received in chunks of any size.
MaxFrames == 2         \* replies sent to the decoder
MaxBody == 2           \* bytes in the body of a bulk reply
BodyBytes == {CR, LF}
Bodies == UNION {[1..n -> BodyBytes] : n \in 0..MaxBody}
BulkFrame(b) == <<"$", Digits[Len(b) + 1]>> \o CRLF \o b \o CRLF
WellFormedFrames ==
    { <<"+", "a">> \o CRLF, <<":", "1">> \o CRLF, <<"$", "-", "1">> \o CRLF,
      <<"*", "1">> \o CRLF } \cup {BulkFrame(b) : b \in Bodies}

\* the reply that frame f carries
ReplyOf(f) ==
    LET line == SubSeq(f, 2, FindCRLF(f) - 1) IN
    CASE f[1] = "+" -> [t |-> "status", v |-> line]
      [] f[1] = "-" -> [t |-> "error", v |-> line]
      [] f[1] = ":" -> [t |-> "int", v |-> line]
      [] f[1] = "*" -> [t |-> "mb", v |-> line]
      [] f[1] = "$" /\ f[2] = "-" -> [t |-> "nil", v |-> <<>>]
      [] OTHER -> [t |-> "bulk", v |-> SubSeq(f, 5, Len(f) - 2)]

\* expect: the replies the frames sent carry; ends: where each frame ends
\* in sent
ServerSendsFrame(f) ==
    /\ dec.frames < MaxFrames
    /\ dec' = [dec EXCEPT !.sent = @ \o f, !.frames = @ + 1,
                          !.expect = Append(@, ReplyOf(f)),
                          !.ends = Append(@, Len(dec.sent) + Len(f))]
    /\ UNCHANGED <<pool, queue, buffer, in_pubsub, in_transaction, transaction, trq,
                   pipelined_calls, messages_queue, calls, mbs, written, srv, wire,
                   closed, ready, last, create>>

\* the transport calls data_received with the next n bytes
ChunkReceived(n) ==
    /\ dec.fed + n <= Len(dec.sent)
    /\ LET D == DataReceivedBytes(dec, SubSeq(dec.sent, dec.fed + 1, dec.fed + n))
           k == dec.fed + n
       IN  dec' = [D EXCEPT !.fed = k,
                     !.cut_crlf = @ \/ (k < Len(dec.sent) /\ dec.sent[k] = CR
                                          /\ dec.sent[k + 1] = LF),
                     !.cut_body = @ \/ (D.in_bulk_reply /\ D.buffer # <<>>)]
    /\ UNCHANGED <<pool, queue, buffer, in_pubsub, in_transaction, transaction, trq,
                   pipelined_calls, messages_queue, calls, mbs, written, srv, wire,
                   closed, ready, last, create>>

NextDecoder ==
    \/ \E f \in WellFormedFrames : ServerSendsFrame(f)
    \/ \E n \in 1..(MaxFrames * (MaxBody + 6)) : ChunkReceived(n)

SpecDecoder == Init /\ [][NextDecoder]_vars

ServerMalformed(e) ==
    /\ ~IsClosed(e)
    /\ srv[e].next <= Len(written[e])
    /\ LET c == written[e][srv[e].next] IN
       /\ srv' = [srv EXCEPT ![e].next = @ + 1, ![e].junk = @ \cup {c}]
       /\ wire' = [wire EXCEPT ![e] = Append(@, Val("junk", "", 0, c))]
    /\ UNCHANGED <<pool, queue, buffer, in_pubsub, in_transaction, transaction, trq,
                   pipelined_calls, messages_queue, calls, mbs, written, closed, ready,
                   last, dec, create>>

NextMalformed ==
    \/ \E e \in Engines : ServerReply(e)
    \/ ServerMalformed(1)
    \/ \E cmd \in EngineCmds : DirectCall(1, cmd, FALSE)
    \/ \E e \in Engines : ReadReady(e)
    \/ DataReceived
    \/ RunCoroutine
    \/ RunHandleResults

SpecMalformed == Init /\ [][NextMalformed]_vars

\* C17: once a line with an unknown first byte has been dispatched on a
\* protocol and every callback has run, no call on that protocol is still
\* waiting for its reply: those outstanding were failed, and a later command
\* is not left to wait.
C17_UnknownPrefixIsFatal ==
    \A e \in Engines : \A c \in srv[e].junk :
        ( /\ ready = <<>>
          /\ ~\E j \in 1..Len(Undelivered(e)) : Undelivered(e)[j].id = c )
        => \A d \in 1..Len(calls) :
              calls[d].e = e => calls[d].pc \notin {"wait", "gather", "iter", "execgather"}

\* A pool that is only given commands that leave its protocols free.
NextRoundRobin ==
    \/ \E e \in Engines : ServerReply(e)
    \/ PoolCall("set", FALSE)
    \/ \E e \in Engines : ReadReady(e)
    \/ DataReceived
    \/ RunCoroutine

SpecRoundRobin == Init /\ [][NextRoundRobin]_vars

\* C18: when no protocol of the pool is ever in use, the protocols of any
\* PoolSize consecutive selections are distinct, and a selection returns the
\* protocol of the selection PoolSize before it.
C18_RoundRobin ==
    \A c, d \in 1..Len(calls) :
        /\ (c < d /\ d - c < PoolSize) => calls[c].e # calls[d].e
        /\ d - c = PoolSize => calls[c].e = calls[d].e

\* the pool has made PoolSize + 1 selections, and no protocol is in use
C18_Witness ==
    /\ Len(calls) = PoolSize + 1
    /\ \A c \in 1..Len(calls) : calls[c].frompool
    /\ \A e \in Engines : ~InUse(e)
    /\ last.sel = calls[1].e

\* ---------------------------------------------------------------- Connection.create
\* Connection.create connects the protocols one after the other.  When the
\* socket of protocol e is connected the transport schedules connection_made
\* and then the result of the waiter create_connection is suspended on.
Dbs == {0, 1}
MaxCreateCalls == 1    \* commands called on a Connection that create returned

CreateConnection ==
    /\ ServerIdle
    /\ create.connecting = 0
    /\ Len(pool) < PoolSize
    /\ LET e == Len(pool) + 1 IN
       /\ create' = [create EXCEPT !.connecting = e]
       /\ ready' = ready \o <<Handle("made", e), Handle("waiter", e)>>
    /\ UNCHANGED <<pool, queue, buffer, in_pubsub, in_transaction, transaction, trq,
                   pipelined_calls, messages_queue, calls, mbs, written, srv, wire,
                   closed, last, dec>>

\* the tasks connection_made starts, in the order it starts them
SetupTasksSelectFirst(e) ==
    (IF create.db # 0 THEN <<Handle("select", e)>> ELSE <<>>)
    \o (IF create.password THEN <<Handle("auth", e)>> ELSE <<>>)

SetupTasks(e) ==
    (IF create.password THEN <<Handle("auth", e)>> ELSE <<>>)
    \o (IF create.db # 0 THEN <<Handle("select", e)>> ELSE <<>>)

\* connection_made
ConnectionMade ==
    /\ ServerIdle
    /\ ready # <<>> /\ Head(ready).h = "made"
    /\ ready' = Tail(ready) \o SetupTasks(Head(ready).x)
    /\ UNCHANGED <<pool, queue, buffer, in_pubsub, in_transaction, transaction, trq,
                   pipelined_calls, messages_queue, calls, mbs, written, srv, wire,
                   closed, last, dec, create>>

\* the waiter of create_connection gets its result: the coroutine is
\* scheduled, and when it runs it returns (transport, protocol), which
\* schedules Connection.create
WaiterDone ==
    /\ ServerIdle
    /\ ready # <<>> /\ Head(ready).h \in {"waiter", "connected"}
    /\ ready' = Tail(ready) \o
                <<Handle(IF Head(ready).h = "waiter" THEN "connected" ELSE "create",
                         Head(ready).x)>>
    /\ UNCHANGED <<pool, queue, buffer, in_pubsub, in_transaction, transaction, trq,
                   pipelined_calls, messages_queue, calls, mbs, written, srv, wire,
                   closed, last, dec, create>>

\* the first step of the task of _auth or _select: _query up to its
\* suspension
RunSetupTask ==
    /\ ServerIdle
    /\ ready # <<>> /\ Head(ready).h \in {"auth", "select"}
    /\ Install(Query(Popped, Head(ready).x, Head(ready).h, FALSE, "none", FALSE, 0, FALSE))
    /\ UNCHANGED <<pool, srv, wire, closed, last, dec, create>>

\* Connection.create is resumed with the pair and appends it
CreateResumed ==
    /\ ServerIdle
    /\ ready # <<>> /\ Head(ready).h = "create"
    /\ pool' = Append(pool, Head(ready).x)
    /\ create' = [create EXCEPT !.connecting = 0]
    /\ ready' = Tail(ready)
    /\ UNCHANGED <<queue, buffer, in_pubsub, in_transaction, transaction, trq,
                   pipelined_calls, messages_queue, calls, mbs, written, srv, wire,
                   closed, last, dec>>

InitCreate ==
    /\ pool = <<>>
    /\ create \in [password : BOOLEAN, db : Dbs, connecting : {0}]
    /\ InitProtocols

\* commands are called on the Connection once create has returned it
NextCreate ==
    \/ CreateConnection
    \/ ConnectionMade
    \/ WaiterDone
    \/ RunSetupTask
    \/ CreateResumed
    \/ \E e \in Engines : ServerReply(e)
    \/ \E cmd \in {"set"} :
          Len(pool) = PoolSize /\ UserCalls < MaxCreateCalls /\ PoolCall(cmd, FALSE)
    \/ \E e \in Engines : ready = <<>> /\ ReadReady(e)
    \/ DataReceived
    \/ RunCoroutine

SpecCreate == InitCreate /\ [][NextCreate]_vars

\* the commands written to the transport of e, in order
WrittenCmds(e) == [i \in 1..Len(written[e]) |-> calls[written[e][i]].cmd]

\* C19: on every protocol AUTH is written only when a password is set and
\* then first, SELECT only when db is not 0 and then right after AUTH (first
\* without a password), and a protocol the pool holds has written them: no
\* command of a caller comes before them.
C19_AuthThenSelect ==
    \A e \in Engines :
        LET w   == WrittenCmds(e)
            sel == IF create.password THEN 2 ELSE 1
            n   == (IF create.password THEN 1 ELSE 0) + (IF create.db # 0 THEN 1 ELSE 0)
        IN  /\ \A i \in 1..Len(w) :
                 /\ w[i] = "auth" <=> (create.password /\ i = 1)
                 /\ w[i] = "select" <=> (create.db # 0 /\ i = sel)
            /\ (\E i \in 1..Len(pool) : pool[i] = e) => Len(w) >= n

\* with a password and db 1, a protocol has written AUTH, SELECT and then
\* the SET of a caller
C19_Witness ==
    /\ create.password /\ create.db # 0
    /\ \E e \in Engines :
          /\ Len(written[e]) = 3
          /\ WrittenCmds(e) = <<"auth", "select", "set">>

\* ---------------------------------------------------------------- cancellation
\* The caller of call c cancels the task that runs the command while it is
\* suspended on the slot Future: Task.cancel cancels the Future the task
\* waits for, and the Future schedules the task.
Cancel(c) ==
    /\ ServerIdle
    /\ calls[c].pc = "wait" /\ calls[c].f = "pending"
    /\ Install(CallSoon([St EXCEPT !.calls[c].f = "cancelled"], Handle("call", c)))
    /\ UNCHANGED <<pool, srv, wire, closed, last, dec, create>>

CancelCmds == {"set", "blpop"}

NextCancel ==
    \/ \E e \in Engines : ServerReply(e)
    \/ \E cmd \in CancelCmds : DirectCall(1, cmd, FALSE)
    \/ \E c \in 1..Len(calls) : Cancel(c)
    \/ \E e \in Engines : ReadReady(e)
    \/ DataReceived
    \/ RunCoroutine
    \/ RunHandleResults

SpecCancel == Init /\ [][NextCancel]_vars

\* C20: when callers cancel commands, a slot that was set was set by the
\* first line of the reply to its own command, the reply to a cancelled
\* command sets no other slot, and data_received leaves no complete line
\* undispatched in _buffer.
C20_CancelledSlotConsumed ==
    /\ \A c \in 1..Len(calls) :
          calls[c].f \in {"result", "exception"}
          => calls[c].raw.id = c /\ calls[c].raw.top
    /\ \A e \in Engines : buffer[e] = <<>>

\* ---------------------------------------------------------------- unwatch
\* One protocol on which transactions are opened, unwatch is called on the
\* Transaction, and the transaction is executed.
NextUnwatch ==
    \/ \E e \in Engines : ServerReply(e)
    \/ DirectCall(1, "multi", FALSE)
    \/ \E h \in Handles : TransactionUnwatch(h)
    \/ \E h \in Handles : TransactionExec(h)
    \/ \E e \in Engines : ReadReady(e)
    \/ DataReceived
    \/ RunCoroutine
    \/ RunHandleResults

SpecUnwatch == Init /\ [][NextUnwatch]_vars

\* C21: an unwatch sent through the Transaction while the protocol is in
\* the transaction, once the server has answered it with a status and its
\* coroutine has run, has returned; it was given no detached Future, no
\* entry of _transaction_response_queue is for it, and its PipelinedCall is
\* gone from _pipelined_calls.
C21_UnwatchInTransaction ==
    \A c \in 1..Len(calls) :
        ( /\ calls[c].cmd = "unwatch"
          /\ calls[c].f = "result" /\ calls[c].raw.t = "status"
          /\ calls[c].pc # "wait" )
        => /\ calls[c].pc = "done"
           /\ calls[c].uf = "none"
           /\ c \notin pipelined_calls[calls[c].e]
           /\ ~trq[calls[c].e].none
              => \A i \in 1..Len(trq[calls[c].e].q) : trq[calls[c].e].q[i].call # c

\* ---------------------------------------------------------------- multi bulk
\* v is the i-th child line the server sends in the multi bulk reply mb: in
\* the reply to EXEC the i-th line is the reply to the i-th command the
\* server queued, in the others it is the i-th of the lines "q", "v"
IsChildOf(v, mb, i) ==
    /\ ~v.top
    /\ IF calls[mb.id].cmd = "exec"
       THEN /\ v.id < mb.id
            /\ \A j \in 1..(i - 1) : mb.futs[j] # NoVal => mb.futs[j].id < v.id
       ELSE v.id = mb.id /\ v.s = <<"q", "v">>[i]

\* C22: the child Futures of a multi bulk reply are set in order, the i-th
\* one by the i-th child line of that reply (also for a multi bulk that is
\* itself an item of the EXEC reply); in _queue the child slots not yet set
\* stand in order before every command slot, and the command slots stand in
\* the order their commands were written.
C22_ChildrenAtHead ==
    /\ \A m \in 1..Len(mbs) : \A i \in 1..Len(mbs[m].futs) :
          mbs[m].futs[i] # NoVal
          => /\ IsChildOf(mbs[m].futs[i], mbs[m], i)
             /\ \A j \in 1..(i - 1) : mbs[m].futs[j] # NoVal
    /\ \A e \in Engines : \A i, j \in 1..Len(queue[e]) :
          i < j =>
            LET a == queue[e][i]
                b == queue[e][j]
            IN  /\ b.k = "child" => a.k = "child"
                /\ (a.k = "child" /\ b.k = "child" /\ a.c = b.c) => a.i < b.i
                /\ (a.k = "cmd" /\ b.k = "cmd") => a.c < b.c

\* the header of a multi bulk reply was dispatched while a later command
\* was waiting: its two children have been set and the later command still
\* waits, alone in _queue
C22_Witness ==
    \E m \in 1..Len(mbs) : \E c \in 1..Len(calls) :
        /\ c > mbs[m].id /\ calls[c].e = mbs[m].e
        /\ mbs[m].count = 2 /\ mbs[m].futs[2] # NoVal
        /\ calls[c].f = "pending"
        /\ queue[mbs[m].e] = <<CmdSlot(c)>>
        /\ \E j \in 1..Len(Undelivered(mbs[m].e)) : Undelivered(mbs[m].e)[j].id = c

\* C23: once every child line of a multi bulk reply has been received and
\* every callback has run, handle_results has put all the children on the
\* queue of the reply, in order, an error among them included, and no
\* reader of the queue is left suspended.
C23_AllItemsProduced ==
    \A m \in 1..Len(mbs) :
        ( /\ ready = <<>>
          /\ \A i \in 1..Len(mbs[m].futs) : mbs[m].futs[i] # NoVal )
        => /\ Len(mbs[m].items) = Len(mbs[m].futs)
           /\ \A i \in 1..Len(mbs[m].futs) : mbs[m].items[i] = mbs[m].futs[i]
           /\ ~mbs[m].rwait

\* the reply lines the server still owes connection e a slot for: the first
\* line of the reply to every command written whose first line has not been
\* dispatched, and the children not yet received of the multi bulk replies
\* whose header has been dispatched
Owed(e) ==
    Cardinality({i \in 1..Len(written[e]) : ~TopLineReceived(e, i)})
    + Cardinality({p \in (1..Len(mbs)) \X (1..(MaxCalls + 3)) :
                      /\ mbs[p[1]].e = e
                      /\ p[2] <= Len(mbs[p[1]].futs)
                      /\ mbs[p[1]].futs[p[2]] = NoVal})

\* C24: on every protocol the length of _queue is the number of reply lines
\* the server still owes it.
C24_QueueLengthIsOwed ==
    \A e \in Engines : Len(queue[e]) = Owed(e)

\* the Future of a slot has no result and no exception yet
SlotPending(slot) ==
    IF slot.k = "cmd" THEN calls[slot.c].f = "pending" /\ calls[slot.c].nset = 0
    ELSE mbs[slot.c].futs[slot.i] = NoVal

\* C25: no slot Future is completed twice.  After every step: a slot is in
\* _queue at most once and its Future is still pending, no Future of a
\* command has been set more than once; and in the step a Future that had
\* a result or an exception before (of a command or of a child of a multi
\* bulk) has kept it, connection_lost included.
C25_SlotCompletedOnce ==
    [][ /\ \A e \in Engines : \A i, j \in 1..Len(queue'[e]) :
              /\ SlotPending(queue[e][i])'
              /\ i # j => queue'[e][i] # queue'[e][j]
        /\ \A c \in 1..Len(calls') : calls'[c].nset <= 1
        /\ \A c \in 1..Len(calls) :
              calls[c].f # "pending"
              => calls'[c].f = calls[c].f /\ calls'[c].raw = calls[c].raw
        /\ \A m \in 1..Len(mbs) : \A i \in 1..Len(mbs[m].futs) :
              mbs[m].futs[i] # NoVal => mbs'[m].futs[i] = mbs[m].futs[i]
      ]_vars

\* connection_lost has failed the slot of one command after the slot of an
\* earlier command of the protocol was set by its reply
C25_Witness ==
    \E c, d \in 1..Len(calls) :
        /\ c < d /\ calls[c].e = calls[d].e /\ IsClosed(calls[c].e)
        /\ calls[c].f = "result" /\ calls[c].nset = 1
        /\ calls[d].f = "exception" /\ calls[d].raw = Exc("ConnectionLost", 0)
        /\ calls[d].nset = 1
        /\ queue[calls[c].e] = <<>>

\* C26: when the coroutine of a command sent through the Transaction
\* (without _bypass) is resumed with its reply while the protocol is in the
\* transaction: if the reply is the status QUEUED, one entry for the command
\* is appended at the end of _transaction_response_queue and the command
\* returns the detached Future; if not, the command raises and
\* _transaction_response_queue is unchanged.
C26_QueuedOrError ==
    [][\A c \in 1..Len(calls) :
          ( /\ calls[c].via # 0 /\ ~calls[c].bypass
            /\ calls[c].cmd \notin {"exec", "discard", "unwatch"}
            /\ calls[c].pc = "wait" /\ calls'[c].pc # "wait"
            /\ in_transaction[calls[c].e] )
          => LET e == calls[c].e IN
             IF calls[c].f = "result" /\ IsStatus(calls[c].raw, "QUEUED")
             THEN /\ ~trq[e].none /\ ~trq'[e].none
                  /\ Len(trq'[e].q) = Len(trq[e].q) + 1
                  /\ trq'[e].q[Len(trq'[e].q)].f = c
                  /\ \A i \in 1..Len(trq[e].q) : trq'[e].q[i] = trq[e].q[i]
                  /\ calls'[c].pc = "done" /\ calls'[c].res.t = "future"
             ELSE /\ calls'[c].pc = "failed"
                  /\ trq'[e] = trq[e]
      ]_vars

\* C27: when nothing is left to run or to receive, the transaction of every
\* EXEC that was written is over: its Transaction is no longer the current
\* one of the protocol, and the protocol is in a transaction only if a later
\* MULTI opened one.
C27_ExecEndsTransaction ==
    Quiescent =>
      \A c \in 1..Len(calls) :
        (calls[c].cmd = "exec" /\ calls[c].f # "none")
        => LET e == calls[c].e IN
           /\ transaction[e] # calls[c].via
           /\ in_transaction[e] => transaction[e] > c

\* C28: a call of discard on a protocol in a transaction writes one command,
\* DISCARD, and leaves _transaction_response_queue an empty deque,
\* _in_transaction false and _transaction None; a call of discard or exec
\* on a protocol that is not in a transaction raises 'Not in transaction'
\* and writes nothing.
C28_DiscardResets ==
    [][ ( /\ Len(calls') = Len(calls) + 1
          /\ calls'[Len(calls')].cmd \in {"discard", "exec"} )
        => LET n == Len(calls')
               e == calls'[n].e
           IN  IF in_transaction[e]
               THEN calls'[n].cmd = "discard"
                    => /\ written' = [written EXCEPT ![e] = Append(@, n)]
                       /\ trq'[e] = Deque(<<>>)
                       /\ ~in_transaction'[e]
                       /\ transaction'[e] = 0
               ELSE /\ calls'[n].pc = "failed"
                    /\ calls'[n].res = Exc("NotInTransaction", 0)
                    /\ written' = written
      ]_vars

\* a transaction was discarded, and an exec called afterwards on the same
\* Transaction has raised without writing
C28_Witness ==
    \E c, d \in 1..Len(calls) :
        /\ c < d /\ calls[c].e = calls[d].e
        /\ calls[c].cmd = "discard" /\ calls[c].pc = "done"
        /\ calls[d].cmd = "exec" /\ calls[d].res = Exc("NotInTransaction", 0)
        /\ written[calls[c].e][Len(written[calls[c].e])] = c
        /\ ~in_transaction[calls[c].e] /\ transaction[calls[c].e] = 0

\* C29: when nothing is left to run or to receive and a protocol is not in
\* a transaction, its _pipelined_calls is empty, whatever the outcomes of
\* its commands were.
C29_NoCallLeft ==
    Quiescent =>
      \A e \in Engines :
        (~in_transaction[e] /\ transaction[e] = 0) => pipelined_calls[e] = {}

\* C30: on a protocol in pub/sub mode with nothing left to run or to
\* receive, every SUBSCRIBE written has been resolved by its
\* acknowledgement, _queue holds no slot for it and the acknowledgement is
\* not on _messages_queue.
C30_AckResolvesCommand ==
    Quiescent =>
      \A c \in 1..Len(calls) :
        LET e == calls[c].e IN
        ( calls[c].cmd = "subscribe" /\ in_pubsub[e] /\ calls[c].f # "none" )
        => /\ calls[c].f # "pending"
           /\ \A i \in 1..Len(queue[e]) :
                ~(queue[e][i].k = "cmd" /\ queue[e][i].c = c)
           /\ \A i \in 1..Len(messages_queue[e].q) :
                mbs[messages_queue[e].q[i]].id # c

C32_NilMultiBulkIsNil ==
    /\ \A c \in 1..Len(calls) :
          (calls[c].f = "result" /\ calls[c].raw.t = "mbreply")
          => mbs[calls[c].raw.n].count >= 0
    /\ \A m \in 1..Len(mbs) : mbs[m].count < 0 => Len(mbs[m].futs) = 0

\* C33: a command the pool gave to a protocol (no Transaction passed) is
\* never taken into a transaction: no entry of a
\* _transaction_response_queue, and none of the entries an exec has taken
\* over, is for such a command, and no detached Future was made for it.
C33_PoolCommandNotCaptured ==
    \A c \in 1..Len(calls) :
        (calls[c].frompool /\ calls[c].via = 0)
        => /\ calls[c].uf = "none"
           /\ \A e \in Engines : \A i \in 1..Len(trq[e].q) : trq[e].q[i].call # c
           /\ \A x \in 1..Len(calls) :
                 \A i \in 1..Len(calls[x].fap0.q) : calls[x].fap0.q[i].call # c

\* ---------------------------------------------------------------- finished Transaction
\* One protocol on which transactions are opened and discarded, and callers
\* that keep using a Transaction after it has finished.
MaxStaleCalls == 4     \* commands called, those on a finished Transaction included

\* Transaction h is no longer the current one of its protocol
Finished(h) == transaction[calls[h].e] # h

StaleRoom == ServerIdle /\ UserCalls < MaxStaleCalls

\* a command called on a finished Transaction
FinishedCall(h, cmd) ==
    /\ StaleRoom /\ Finished(h)
    /\ Install(TransactionGetattr(St, h, cmd))
    /\ UNCHANGED <<pool, srv, wire, closed, last, dec, create>>

\* Transaction.exec of a finished Transaction
FinishedExec(h) ==
    /\ StaleRoom /\ Finished(h)
    /\ Install(ExecStart(St, calls[h].e, h))
    /\ UNCHANGED <<pool, srv, wire, closed, last, dec, create>>

\* Transaction.discard of a finished Transaction
FinishedDiscard(h) ==
    /\ StaleRoom /\ Finished(h)
    /\ Install(DiscardStart(St, calls[h].e, h))
    /\ UNCHANGED <<pool, srv, wire, closed, last, dec, create>>

\* Transaction.unwatch of a finished Transaction
FinishedUnwatch(h) ==
    /\ StaleRoom /\ Finished(h)
    /\ Install(UnwatchStart(St, calls[h].e, h))
    /\ UNCHANGED <<pool, srv, wire, closed, last, dec, create>>

NextFinished ==
    \/ \E e \in Engines : ServerReply(e)
    \/ DirectCall(1, "multi", FALSE)
    \/ \E h \in Handles : TransactionDiscard(h)
    \/ \E h \in Handles : FinishedCall(h, "set")
    \/ \E h \in Handles : FinishedExec(h)
    \/ \E h \in Handles : FinishedDiscard(h)
    \/ \E h \in Handles : FinishedUnwatch(h)
    \/ \E e \in Engines : ReadReady(e)
    \/ DataReceived
    \/ RunCoroutine
    \/ RunHandleResults

SpecFinished == Init /\ [][NextFinished]_vars

\* C34: a call made through a Transaction that is no longer the current one
\* of its protocol (a command, exec, discard or unwatch) raises, writes
\* nothing and leaves the transaction state of the protocol as it was: the
\* transaction another caller has opened since is neither executed nor
\* discarded by it.
C34_FinishedTransactionInert ==
    [][ ( /\ Len(calls') = Len(calls) + 1
          /\ calls'[Len(calls')].via # 0
          /\ transaction[calls'[Len(calls')].e] # calls'[Len(calls')].via )
        => /\ calls'[Len(calls')].pc = "failed"
           /\ written' = written
           /\ queue' = queue
           /\ in_transaction' = in_transaction
           /\ transaction' = transaction
           /\ trq' = trq
      ]_vars

\* C35: when the coroutine of a command called through the Transaction
\* ends, whatever discard or exec has done to the transaction while its
\* reply was awaited, it either raises or returns a detached Future that is
\* the last entry of _transaction_response_queue; it never returns the
\* status QUEUED.
C35_NeverRawQueued ==
    [][\A c \in 1..Len(calls) :
          ( /\ calls[c].via # 0
            /\ calls[c].cmd \notin {"exec", "discard", "unwatch"}
            /\ calls[c].f = "result" /\ IsStatus(calls[c].raw, "QUEUED")
            /\ calls[c].pc = "wait" /\ calls'[c].pc # "wait" )
          => LET e == calls[c].e IN
             \/ calls'[c].pc = "failed" /\ IsException(calls'[c].res)
             \/ /\ calls'[c].pc = "done" /\ calls'[c].res.t = "future"
                /\ calls'[c].uf = "pending"
                /\ ~trq'[e].none /\ trq'[e].q # <<>>
                /\ trq'[e].q[Len(trq'[e].q)].f = c
      ]_vars

\* a command called through the Transaction was answered QUEUED, a discard
\* called before that reply was processed had ended the transaction, and
\* the command has raised
C35_Witness ==
    \E c, d \in 1..Len(calls) :
        /\ c < d /\ calls[c].via # 0 /\ calls[d].via = calls[c].via
        /\ calls[c].cmd = "set" /\ calls[d].cmd = "discard"
        /\ calls[c].f = "result" /\ IsStatus(calls[c].raw, "QUEUED")
        /\ calls[c].pc = "failed" /\ calls[c].res = Exc("AttributeError", c)
        /\ calls[c].uf = "none"

\* C36: on a protocol that is in a transaction _transaction_response_queue
\* is a deque, never None.
C36_QueueExistsInTransaction ==
    \A e \in Engines : in_transaction[e] => ~trq[e].none
====
